---- MODULE Spec2Model ----
(***************************************************************************)
(* Hammer: a thin layer over vulkano (instance, adapter selection, window  *)
(* surface and swapchain) and the triangle example's frame loop.           *)
(*                                                                         *)
(* Three specifications share the variables below:                         *)
(*   SpecSurface  the Surface / TargetSurface methods, called in any order *)
(*   Spec         main(): the winit event loop of src/main.rs              *)
(*   SpecAdapter  Instance::request_adapter on enumerated device lists     *)
(* The graphics driver, the GPU and the window system are the environment: *)
(* their answers are drawn with \E from the outcomes the code matches on.  *)
(***************************************************************************)
EXTENDS Integers, Sequences, FiniteSets, TLC

\* ------------------------------------------------------------------ bounds
\* window inner sizes are <<w, 1>> with 1 <= w <= MaxWidth (the code treats the two
\* components alike: it passes inner_size() on whole)
MaxWidth == 2
\* the driver's surface_capabilities.min_image_count ranges over 1..MaxMinImageCount
MaxMinImageCount == 2
\* swapchain handles handed out by the driver: 1..MaxSwapchains
MaxSwapchains == 3
\* RedrawEventsCleared iterations that reach the submit
MaxFrames == 3
\* physical devices the instance enumerates
MaxDevices == 2
\* queue families of one physical device
MaxQueueFamilies == 2

VARIABLES
    \* --- window system and driver
    window,              \* surface.window().inner_size()
    driver,              \* what the physical device reports for the surface
    next_handle,         \* the next swapchain handle the driver hands out
    \* --- hammer::Surface and hammer::TargetSurface
    surface,             \* Surface { surface, swapchain: Option<Swapchain> }
    target,              \* Option<TargetSurface>
    call,                \* the last Surface / TargetSurface method call and its return
    panicked,            \* the process has aborted (panic!, unwrap on Err)
    \* --- main(): the event loop's captured state
    recreate_swapchain,  \* let mut recreate_swapchain
    previous_frame_end,  \* let mut previous_frame_end: Option<Box<dyn GpuFuture>>
    control_flow,        \* *control_flow
    render_pass_format,  \* the format the render pass was built with
    pc,                  \* position inside the RedrawEventsCleared handler
    resized_pending,     \* a Resized event is queued by the window system
    target_image,        \* Option<SurfaceImage> of the running iteration
    gpu_pending,         \* frames submitted to the queue, not yet finished by the GPU
    frames,              \* number of submit attempts so far
    iter,                \* what the running / last iteration did
    \* --- Instance::request_adapter
    devices,             \* PhysicalDevice::enumerate(&instance)
    desc,                \* AdapterDescriptor
    adapter              \* Option<Adapter>, or the panic of unwrap()

surface_vars == <<window, driver, next_handle, surface, target, call, panicked>>
loop_vars == <<recreate_swapchain, previous_frame_end, control_flow, render_pass_format,
               pc, resized_pending, target_image, gpu_pending, frames, iter>>
adapter_vars == <<devices, desc, adapter>>
vars == <<surface_vars, loop_vars, adapter_vars>>

\* ------------------------------------------------------------ Option<T>
None == <<>>
Some(x) == <<x>>
is_some(o) == o # <<>>
unwrap(o) == o[1]

\* ------------------------------------------------------ the environment
Extents == {<<w, 1>> : w \in 1..MaxWidth}

\* CompositeAlpha in the order supported_composite_alpha.iter() yields them
CompositeAlphaOrder == <<"Opaque", "PreMultiplied", "PostMultiplied", "Inherit">>

\* surface_capabilities() and surface_formats() of the physical device
DriverProfiles ==
    {[min_image_count |-> n, supported_composite_alpha |-> p[1], surface_formats |-> p[2]] :
        n \in 1..MaxMinImageCount,
        p \in {<<{"Opaque", "Inherit"}, <<"B8G8R8A8_UNORM", "R8G8B8A8_UNORM">>>>,
               <<{"PreMultiplied", "Inherit"}, <<"R8G8B8A8_UNORM">>>>}}

\* supported_composite_alpha.iter().next().unwrap()
first_composite_alpha(supported) ==
    CompositeAlphaOrder[CHOOSE i \in 1..Len(CompositeAlphaOrder) :
        /\ CompositeAlphaOrder[i] \in supported
        /\ \A j \in 1..(i - 1) : CompositeAlphaOrder[j] \notin supported]

\* the answers the code matches on when a swapchain is (re)created
CreationOutcomes == {"Ok", "ImageExtentNotSupported", "OtherError"}

\* vulkano::Swapchain::new / Swapchain::recreate answering Ok: a new swapchain object
\* that remembers its create info, and its images (at index 0 .. count-1)
driver_swapchain(h, info) == [handle |-> h, create_info |-> info]
driver_images(h, info) ==
    [i \in 1..info.min_image_count |-> [swapchain |-> h, index |-> i - 1]]

\* ------------------------------------------------------ hammer::Surface
\* Surface::new: no swapchain yet
Surface_new == [swapchain |-> None]

\* SwapchainCreateInfo built by create_swapchain / TargetSurface::new
new_create_info(drv, win) ==
    [min_image_count |-> drv.min_image_count,
     image_format |-> Some(drv.surface_formats[1]),
     image_extent |-> win,
     image_usage |-> "color_attachment",
     composite_alpha |-> first_composite_alpha(drv.supported_composite_alpha)]

\* Surface::create_swapchain; the result is [surface, ret, panic]
Surface_create_swapchain(s, drv, win, outcome, h) ==
    IF outcome = "Ok"
    THEN [surface |-> [s EXCEPT !.swapchain =
                          Some([swapchain |-> driver_swapchain(h, new_create_info(drv, win)),
                                images |-> driver_images(h, new_create_info(drv, win))])],
          ret |-> TRUE, panic |-> FALSE]
    ELSE [surface |-> s, ret |-> FALSE, panic |-> TRUE]

\* a create info that forgets the new extent
recreate_info_same_extent(swapchain, win) == swapchain.create_info

\* SwapchainCreateInfo { image_extent: inner_size, ..swapchain.create_info() }
recreate_info(swapchain, win) == [swapchain.create_info EXCEPT !.image_extent = win]

\* a recreate_swapchain that gives the swapchain up when the extent is refused
Surface_recreate_swapchain_drops(s, win, outcome, h) ==
    IF is_some(s.swapchain)
    THEN LET sc == unwrap(s.swapchain)
             info == recreate_info(sc.swapchain, win)
         IN  CASE outcome = "Ok" ->
                    [surface |-> [s EXCEPT !.swapchain =
                                    Some([swapchain |-> driver_swapchain(h, info),
                                          images |-> driver_images(h, info)])],
                     ret |-> TRUE, panic |-> FALSE]
               [] outcome = "ImageExtentNotSupported" ->
                    [surface |-> [s EXCEPT !.swapchain = None], ret |-> FALSE, panic |-> FALSE]
               [] OTHER ->
                    [surface |-> s, ret |-> FALSE, panic |-> TRUE]
    ELSE [surface |-> s, ret |-> FALSE, panic |-> FALSE]

\* a recreate_swapchain that answers every driver error with false
Surface_recreate_swapchain_all_soft(s, win, outcome, h) ==
    IF is_some(s.swapchain)
    THEN LET sc == unwrap(s.swapchain)
             info == recreate_info(sc.swapchain, win)
         IN  CASE outcome = "Ok" ->
                    [surface |-> [s EXCEPT !.swapchain =
                                    Some([swapchain |-> driver_swapchain(h, info),
                                          images |-> driver_images(h, info)])],
                     ret |-> TRUE, panic |-> FALSE]
               [] OTHER ->
                    [surface |-> s, ret |-> FALSE, panic |-> FALSE]
    ELSE [surface |-> s, ret |-> FALSE, panic |-> FALSE]

\* a recreate_swapchain that stores the new swapchain and keeps the old image list
Surface_recreate_swapchain_keeps_images(s, win, outcome, h) ==
    IF is_some(s.swapchain)
    THEN LET sc == unwrap(s.swapchain)
             info == recreate_info(sc.swapchain, win)
         IN  CASE outcome = "Ok" ->
                    [surface |-> [s EXCEPT !.swapchain =
                                    Some([swapchain |-> driver_swapchain(h, info),
                                          images |-> sc.images])],
                     ret |-> TRUE, panic |-> FALSE]
               [] outcome = "ImageExtentNotSupported" ->
                    [surface |-> s, ret |-> FALSE, panic |-> FALSE]
               [] OTHER ->
                    [surface |-> s, ret |-> FALSE, panic |-> TRUE]
    ELSE [surface |-> s, ret |-> FALSE, panic |-> FALSE]

\* a recreate_swapchain that unwraps the Option
Surface_recreate_swapchain_unwraps(s, win, outcome, h) ==
    IF is_some(s.swapchain)
    THEN LET sc == unwrap(s.swapchain)
             info == recreate_info(sc.swapchain, win)
         IN  CASE outcome = "Ok" ->
                    [surface |-> [s EXCEPT !.swapchain =
                                    Some([swapchain |-> driver_swapchain(h, info),
                                          images |-> driver_images(h, info)])],
                     ret |-> TRUE, panic |-> FALSE]
               [] outcome = "ImageExtentNotSupported" ->
                    [surface |-> s, ret |-> FALSE, panic |-> FALSE]
               [] OTHER ->
                    [surface |-> s, ret |-> FALSE, panic |-> TRUE]
    ELSE [surface |-> s, ret |-> FALSE, panic |-> TRUE]

\* Surface::recreate_swapchain; the result is [surface, ret, panic]
Surface_recreate_swapchain(s, win, outcome, h) ==
    IF is_some(s.swapchain)
    THEN LET sc == unwrap(s.swapchain)
             info == recreate_info(sc.swapchain, win)
         IN  CASE outcome = "Ok" ->
                    [surface |-> [s EXCEPT !.swapchain =
                                    Some([swapchain |-> driver_swapchain(h, info),
                                          images |-> driver_images(h, info)])],
                     ret |-> TRUE, panic |-> FALSE]
               [] outcome = "ImageExtentNotSupported" ->
                    [surface |-> s, ret |-> FALSE, panic |-> FALSE]
               [] OTHER ->
                    [surface |-> s, ret |-> FALSE, panic |-> TRUE]
    ELSE [surface |-> s, ret |-> FALSE, panic |-> FALSE]

\* Surface::image_format
Surface_image_format(s) ==
    IF is_some(s.swapchain)
    THEN Some(unwrap(unwrap(s.swapchain).swapchain.create_info.image_format))
    ELSE None

\* ------------------------------------------------ hammer::TargetSurface
\* TargetSurface::new; the result is [target, panic]
TargetSurface_new(drv, win, outcome, h) ==
    IF outcome = "Ok"
    THEN [target |-> Some([swapchain |-> driver_swapchain(h, new_create_info(drv, win)),
                           images |-> driver_images(h, new_create_info(drv, win))]),
          panic |-> FALSE]
    ELSE [target |-> None, panic |-> TRUE]

\* TargetSurface::recreate; the result is [target, ret, panic]
TargetSurface_recreate(t, win, outcome, h) ==
    LET info == recreate_info(t.swapchain, win)
    IN  CASE outcome = "Ok" ->
               [target |-> [t EXCEPT !.swapchain = driver_swapchain(h, info),
                                     !.images = driver_images(h, info)],
                ret |-> TRUE, panic |-> FALSE]
          [] outcome = "ImageExtentNotSupported" ->
               [target |-> t, ret |-> FALSE, panic |-> FALSE]
          [] OTHER ->
               [target |-> t, ret |-> FALSE, panic |-> TRUE]

\* ------------------------------------------------------ image acquisition
\* what vulkano::acquire_next_image answers: Ok((image_num, suboptimal, future)) or Err
AcquireResults == {"Ok", "OutOfDate", "OtherError"}

\* the answers possible for a swapchain with n images
acquire_answers(n) ==
    {[result |-> "Ok", image_num |-> i, suboptimal |-> b] : i \in 0..(n - 1), b \in BOOLEAN}
    \cup {[result |-> r, image_num |-> 0, suboptimal |-> FALSE] : r \in AcquireResults \ {"Ok"}}

\* a SurfaceImage that always hands out the first image of the list
surface_image_first(swapchain, images, acq) ==
    [image |-> images[1],
     suboptimal |-> acq.suboptimal,
     image_num |-> acq.image_num,
     from_swapchain |-> swapchain.handle]

\* SurfaceImage { image, suboptimal, acquire_future, image_num }; from_swapchain is the
\* swapchain handle acquire_next_image was called on
surface_image(swapchain, images, acq) ==
    [image |-> images[acq.image_num + 1],
     suboptimal |-> acq.suboptimal,
     image_num |-> acq.image_num,
     from_swapchain |-> swapchain.handle]

\* Surface::get_current_image; the result is [image: Option<SurfaceImage>, panic]
Surface_get_current_image(s, acq) ==
    IF ~is_some(s.swapchain) \/ acq.result # "Ok"
       \/ acq.image_num + 1 > Len(unwrap(s.swapchain).images)
    THEN [image |-> None, panic |-> TRUE]
    ELSE [image |-> Some(surface_image(unwrap(s.swapchain).swapchain,
                                       unwrap(s.swapchain).images, acq)),
          panic |-> FALSE]

\* TargetSurface::get_current_image; the result is [image: Option<SurfaceImage>, panic]
TargetSurface_get_current_image(t, acq) ==
    IF acq.result # "Ok" \/ acq.image_num + 1 > Len(t.images)
    THEN [image |-> None, panic |-> TRUE]
    ELSE [image |-> Some(surface_image(t.swapchain, t.images, acq)), panic |-> FALSE]

\* ------------------------------------------------------------- futures
\* sync::now(device): nothing to wait for
now_future == [kind |-> "now", holds |-> {}]
\* a frame's future that is not joined after the previous one
fence_future_unjoined(prev, k) == [kind |-> "fence", holds |-> {k}]

\* ...then_signal_fence_and_flush() of frame k joined after the previous future: it holds
\* the resources of frame k and of whatever the previous future still held
fence_future(prev, k) == [kind |-> "fence", holds |-> prev.holds \cup {k}]
\* GpuFuture::cleanup_finished: a poll, releases what the GPU has finished
cleanup_finished(f, pending) == [f EXCEPT !.holds = f.holds \cap {p.frame : p \in pending}]

\* ------------------------------------------------------- fixed parts
NoCall == [op |-> "none", outcome |-> "none", ret |-> FALSE, image |-> None,
           pre_surface |-> Surface_new, pre_target |-> None, pre_window |-> <<1, 1>>]
NoIter == [flag_at_start |-> FALSE, recreate |-> "none", flag_after_recreate |-> FALSE,
           acquire |-> "none", suboptimal |-> FALSE, executed |-> FALSE,
           presented |-> None, flush |-> "none"]

SurfaceUnused ==
    /\ window = <<1, 1>>
    /\ driver = [min_image_count |-> 1, supported_composite_alpha |-> {"Opaque"},
                 surface_formats |-> <<"B8G8R8A8_UNORM">>]
    /\ next_handle = 1
    /\ surface = Surface_new
    /\ target = None
    /\ call = NoCall
    /\ panicked = FALSE

LoopUnused ==
    /\ recreate_swapchain = FALSE
    /\ previous_frame_end = None
    /\ control_flow = "Poll"
    /\ render_pass_format = None
    /\ pc = "unused"
    /\ resized_pending = FALSE
    /\ target_image = None
    /\ gpu_pending = {}
    /\ frames = 0
    /\ iter = NoIter

AdapterUnused ==
    /\ devices = <<>>
    /\ desc = [device_extensions |-> {}, supports_graphics |-> FALSE,
               supports_compute |-> FALSE, supports_surface |-> None]
    /\ adapter = None

\* ============================================================ SpecSurface
\* The methods of Surface and TargetSurface called in any order on one window.

InitSurface ==
    /\ window \in Extents
    /\ driver \in DriverProfiles
    /\ next_handle = 1
    /\ surface = Surface_new
    /\ target = None
    /\ call = NoCall
    /\ panicked = FALSE
    /\ LoopUnused
    /\ AdapterUnused

Called(op, outcome, ret, image) ==
    [op |-> op, outcome |-> outcome, ret |-> ret, image |-> image,
     pre_surface |-> surface, pre_target |-> target, pre_window |-> window]

\* the driver has a handle left for an Ok answer
HandleLeft(outcome) == outcome = "Ok" => next_handle <= MaxSwapchains
HandleAfter(outcome) == IF outcome = "Ok" THEN next_handle + 1 ELSE next_handle

\* the user resizes the window
WindowResize ==
    /\ ~panicked
    /\ \E e \in Extents \ {window} : window' = e
    /\ UNCHANGED <<driver, next_handle, surface, target, call, panicked>>
    /\ UNCHANGED <<loop_vars, adapter_vars>>

CallCreateSwapchain ==
    /\ ~panicked
    /\ \E outcome \in CreationOutcomes :
         LET r == Surface_create_swapchain(surface, driver, window, outcome, next_handle)
         IN  /\ HandleLeft(outcome)
             /\ surface' = r.surface
             /\ panicked' = r.panic
             /\ call' = Called("create_swapchain", outcome, r.ret, None)
             /\ next_handle' = HandleAfter(outcome)
    /\ UNCHANGED <<window, driver, target>>
    /\ UNCHANGED <<loop_vars, adapter_vars>>

CallRecreateSwapchain ==
    /\ ~panicked
    /\ \E outcome \in CreationOutcomes :
         LET r == Surface_recreate_swapchain(surface, window, outcome, next_handle)
         IN  /\ HandleLeft(outcome)
             /\ surface' = r.surface
             /\ panicked' = r.panic
             /\ call' = Called("recreate_swapchain", outcome, r.ret, None)
             /\ next_handle' = IF r.ret THEN next_handle + 1 ELSE next_handle
    /\ UNCHANGED <<window, driver, target>>
    /\ UNCHANGED <<loop_vars, adapter_vars>>

CallGetCurrentImage ==
    /\ ~panicked
    /\ \E acq \in acquire_answers(IF is_some(surface.swapchain)
                                  THEN Len(unwrap(surface.swapchain).images) ELSE 1) :
         LET r == Surface_get_current_image(surface, acq)
         IN  /\ panicked' = r.panic
             /\ call' = Called("get_current_image", acq.result, ~r.panic, r.image)
    /\ UNCHANGED <<window, driver, next_handle, surface, target>>
    /\ UNCHANGED <<loop_vars, adapter_vars>>

CallTargetNew ==
    /\ ~panicked
    /\ target = None
    /\ \E outcome \in CreationOutcomes :
         LET r == TargetSurface_new(driver, window, outcome, next_handle)
         IN  /\ HandleLeft(outcome)
             /\ target' = r.target
             /\ panicked' = r.panic
             /\ call' = Called("TargetSurface::new", outcome, ~r.panic, None)
             /\ next_handle' = HandleAfter(outcome)
    /\ UNCHANGED <<window, driver, surface>>
    /\ UNCHANGED <<loop_vars, adapter_vars>>

CallTargetRecreate ==
    /\ ~panicked
    /\ is_some(target)
    /\ \E outcome \in CreationOutcomes :
         LET r == TargetSurface_recreate(unwrap(target), window, outcome, next_handle)
         IN  /\ HandleLeft(outcome)
             /\ target' = Some(r.target)
             /\ panicked' = r.panic
             /\ call' = Called("TargetSurface::recreate", outcome, r.ret, None)
             /\ next_handle' = HandleAfter(outcome)
    /\ UNCHANGED <<window, driver, surface>>
    /\ UNCHANGED <<loop_vars, adapter_vars>>

CallTargetGetCurrentImage ==
    /\ ~panicked
    /\ is_some(target)
    /\ \E acq \in acquire_answers(Len(unwrap(target).images)) :
         LET r == TargetSurface_get_current_image(unwrap(target), acq)
         IN  /\ panicked' = r.panic
             /\ call' = Called("TargetSurface::get_current_image", acq.result,
                               ~r.panic, r.image)
    /\ UNCHANGED <<window, driver, next_handle, surface, target>>
    /\ UNCHANGED <<loop_vars, adapter_vars>>

NextSurface ==
    \/ WindowResize
    \/ CallCreateSwapchain
    \/ CallRecreateSwapchain
    \/ CallGetCurrentImage
    \/ CallTargetNew
    \/ CallTargetRecreate
    \/ CallTargetGetCurrentImage

SpecSurface == InitSurface /\ [][NextSurface]_vars

\* ================================================================== Spec
\* main(): the closure given to event_loop.run, one action per event or per
\* stretch of the RedrawEventsCleared handler between two driver calls.

\* the state main() has built when event_loop.run starts
Init ==
    /\ window \in Extents
    /\ driver \in DriverProfiles
    /\ next_handle = 2
    /\ surface = Surface_create_swapchain(Surface_new, driver, window, "Ok", 1).surface
    /\ target = None
    /\ call = NoCall
    /\ panicked = FALSE
    /\ recreate_swapchain = FALSE
    /\ previous_frame_end = Some(now_future)
    /\ control_flow = "Poll"
    /\ render_pass_format = Surface_image_format(surface)
    /\ pc = "idle"
    /\ resized_pending = FALSE
    /\ target_image = None
    /\ gpu_pending = {}
    /\ frames = 0
    /\ iter = NoIter
    /\ AdapterUnused

Running == ~panicked /\ pc # "exited"

\* the window system: the window gets a size and a Resized event is queued. The handler
\* reads the size only in its recreate step, so a resize while the handler runs is a
\* resize right after it
NativeResize ==
    /\ Running /\ pc = "idle"
    /\ \E e \in Extents : window' = e
    /\ resized_pending' = TRUE
    /\ UNCHANGED <<driver, next_handle, surface, target, call, panicked>>
    /\ UNCHANGED <<recreate_swapchain, previous_frame_end, control_flow, render_pass_format,
                   pc, target_image, gpu_pending, frames, iter>>
    /\ UNCHANGED adapter_vars

\* the GPU finishes the oldest frame of the queue
GpuComplete ==
    /\ gpu_pending # {}
    /\ pc # "exited"
    /\ LET oldest == CHOOSE p \in gpu_pending : \A q \in gpu_pending : p.frame <= q.frame
       IN  gpu_pending' = gpu_pending \ {oldest}
    /\ UNCHANGED surface_vars
    /\ UNCHANGED <<recreate_swapchain, previous_frame_end, control_flow, render_pass_format,
                   pc, resized_pending, target_image, frames, iter>>
    /\ UNCHANGED adapter_vars

\* a handler that asks the loop to wait instead of to exit
close_requested_waits(cf) == "Wait"

\* *control_flow = ControlFlow::Exit
close_requested(cf) == "Exit"

\* Event::WindowEvent { event: WindowEvent::CloseRequested, .. }
CloseRequested ==
    /\ Running /\ pc = "idle"
    /\ control_flow' = close_requested(control_flow)
    /\ UNCHANGED surface_vars
    /\ UNCHANGED <<recreate_swapchain, previous_frame_end, render_pass_format,
                   pc, resized_pending, target_image, gpu_pending, frames, iter>>
    /\ UNCHANGED adapter_vars

\* a handler that leaves the flag as it is
window_resized_ignored(flag) == flag

\* recreate_swapchain = true
window_resized(flag) == TRUE

\* Event::WindowEvent { event: WindowEvent::Resized(_), .. }
Resized ==
    /\ Running /\ pc = "idle"
    /\ resized_pending
    /\ resized_pending' = FALSE
    /\ recreate_swapchain' = window_resized(recreate_swapchain)
    /\ UNCHANGED surface_vars
    /\ UNCHANGED <<previous_frame_end, control_flow, render_pass_format,
                   pc, target_image, gpu_pending, frames, iter>>
    /\ UNCHANGED adapter_vars

\* _ => ()
OtherEvent ==
    /\ Running /\ pc = "idle"
    /\ UNCHANGED vars

\* winit stops calling the closure once control_flow is Exit
LoopDestroyed ==
    /\ Running /\ pc = "idle"
    /\ control_flow = "Exit"
    /\ pc' = "exited"
    /\ UNCHANGED surface_vars
    /\ UNCHANGED <<recreate_swapchain, previous_frame_end, control_flow, render_pass_format,
                   resized_pending, target_image, gpu_pending, frames, iter>>
    /\ UNCHANGED adapter_vars

\* a recreate step that does not look at the flag
recreate_step_unconditional(flag, s, win, outcome, h) ==
    LET r == Surface_recreate_swapchain(s, win, outcome, h)
    IN  [surface |-> r.surface, flag |-> IF r.panic THEN flag ELSE FALSE,
         panic |-> r.panic,
         did |-> IF r.panic THEN "panic" ELSE IF r.ret THEN "Ok" ELSE "soft_fail"]

\* the recreate step of the handler: the surface, the flag and the process afterwards
recreate_step(flag, s, win, outcome, h) ==
    IF flag
    THEN LET r == Surface_recreate_swapchain(s, win, outcome, h)
         IN  [surface |-> r.surface, flag |-> IF r.panic THEN flag ELSE FALSE,
              panic |-> r.panic,
              did |-> IF r.panic THEN "panic" ELSE IF r.ret THEN "Ok" ELSE "soft_fail"]
    ELSE [surface |-> s, flag |-> flag, panic |-> FALSE, did |-> "skipped"]

\* Event::RedrawEventsCleared, up to the acquire: cleanup_finished and the recreate step
RedrawEventsCleared ==
    /\ Running /\ pc = "idle"
    /\ frames < MaxFrames
    /\ IF ~is_some(previous_frame_end)
       THEN /\ panicked' = TRUE
            /\ UNCHANGED <<next_handle, surface, call, recreate_swapchain,
                           previous_frame_end, pc, iter>>
       ELSE \E outcome \in CreationOutcomes :
              LET r == recreate_step(recreate_swapchain, surface, window, outcome, next_handle)
              IN  /\ recreate_swapchain => HandleLeft(outcome)
                  /\ recreate_swapchain \/ outcome = "Ok"
                  /\ previous_frame_end' =
                         Some(cleanup_finished(unwrap(previous_frame_end), gpu_pending))
                  /\ surface' = r.surface
                  /\ recreate_swapchain' = r.flag
                  /\ panicked' = r.panic
                  /\ next_handle' = IF r.did = "Ok" THEN next_handle + 1 ELSE next_handle
                  /\ call' = IF recreate_swapchain
                             THEN Called("recreate_swapchain", outcome, r.did = "Ok", None)
                             ELSE NoCall
                  /\ pc' = IF r.panic THEN pc ELSE "acquire"
                  /\ iter' = [NoIter EXCEPT !.flag_at_start = recreate_swapchain,
                                            !.recreate = r.did,
                                            !.flag_after_recreate = r.flag]
    /\ UNCHANGED <<window, driver, target>>
    /\ UNCHANGED <<control_flow, render_pass_format, resized_pending, target_image,
                   gpu_pending, frames>>
    /\ UNCHANGED adapter_vars

\* images of the stored swapchain no pending frame draws to: acquire_next_image blocks
\* until there is one
free_images(s, pending) ==
    IF is_some(s.swapchain)
    THEN {i \in 0..(Len(unwrap(s.swapchain).images) - 1) :
            \A p \in pending : p.image # unwrap(s.swapchain).images[i + 1]}
    ELSE {}

\* a check that ignores the suboptimal flag
suboptimal_check_ignored(flag, image) == flag

\* if target_image.suboptimal { recreate_swapchain = true; }
suboptimal_check(flag, image) == IF image.suboptimal THEN TRUE ELSE flag

\* the handler from get_current_image to the suboptimal check; framebuffer_setup, which
\* lies between the two, unwraps the driver's answers
Acquire ==
    /\ Running /\ pc = "acquire"
    /\ \E acq \in acquire_answers(Len(unwrap(surface.swapchain).images)),
          framebuffer_ok \in BOOLEAN :
         LET r == Surface_get_current_image(surface, acq)
         IN  /\ acq.result = "Ok" => acq.image_num \in free_images(surface, gpu_pending)
             /\ acq.result # "Ok" => framebuffer_ok
             /\ panicked' = (r.panic \/ ~framebuffer_ok)
             /\ target_image' = r.image
             /\ recreate_swapchain' =
                    IF panicked' THEN recreate_swapchain
                    ELSE suboptimal_check(recreate_swapchain, unwrap(r.image))
             /\ pc' = IF panicked' THEN pc ELSE "draw"
             /\ iter' = [iter EXCEPT !.acquire = acq.result, !.suboptimal = acq.suboptimal]
    /\ UNCHANGED <<window, driver, next_handle, surface, target, call>>
    /\ UNCHANGED <<previous_frame_end, control_flow, render_pass_format, resized_pending,
                   gpu_pending, frames>>
    /\ UNCHANGED adapter_vars

\* what the rest of the handler can meet: the flush result, or an unwrap that fails while
\* the command buffer is built (before take()) or in then_execute (after take())
SubmitOutcomes == {"Ok", "OutOfDate", "OtherError", "BuildPanic", "ExecutePanic"}

\* a match whose last arm leaves the slot that take() emptied
flush_match_slot_left_empty(out, prev, flag, pending, frame) ==
    CASE out = "Ok" ->
           [previous_frame_end |-> Some(fence_future(prev, frame.frame)),
            flag |-> flag, pending |-> pending \cup {frame}]
      [] out = "OutOfDate" ->
           [previous_frame_end |-> Some(now_future), flag |-> TRUE, pending |-> {}]
      [] OTHER ->
           [previous_frame_end |-> None, flag |-> flag, pending |-> {}]

\* a match that treats every flush error alike
flush_match_out_of_date_unflagged(out, prev, flag, pending, frame) ==
    CASE out = "Ok" ->
           [previous_frame_end |-> Some(fence_future(prev, frame.frame)),
            flag |-> flag, pending |-> pending \cup {frame}]
      [] OTHER ->
           [previous_frame_end |-> Some(now_future), flag |-> flag, pending |-> {}]

\* the match on the flush result: the retained future, the flag and the GPU's queue
flush_match(out, prev, flag, pending, frame) ==
    CASE out = "Ok" ->
           [previous_frame_end |-> Some(fence_future(prev, frame.frame)),
            flag |-> flag, pending |-> pending \cup {frame}]
      [] out = "OutOfDate" ->
           [previous_frame_end |-> Some(now_future), flag |-> TRUE, pending |-> {}]
      [] OTHER ->
           [previous_frame_end |-> Some(now_future), flag |-> flag, pending |-> {}]

\* the handler from the command buffer to the end: build, take().unwrap().join(..)
\* .then_execute(..).then_swapchain_present(..).then_signal_fence_and_flush(), match
Submit ==
    /\ Running /\ pc = "draw"
    /\ \E out \in SubmitOutcomes :
         LET img == unwrap(target_image)
             frame == [frame |-> frames + 1, swapchain |-> unwrap(surface.swapchain).swapchain.handle,
                       image_num |-> img.image_num, image |-> img.image]
         IN  CASE out = "BuildPanic" ->
                    /\ panicked' = TRUE
                    /\ UNCHANGED <<previous_frame_end, recreate_swapchain, gpu_pending,
                                   frames, pc, target_image, iter>>
               [] out = "ExecutePanic" \/ ~is_some(previous_frame_end) ->
                    /\ panicked' = TRUE
                    /\ previous_frame_end' = None
                    /\ UNCHANGED <<recreate_swapchain, gpu_pending, frames, pc,
                                   target_image, iter>>
               [] OTHER ->
                    LET m == flush_match(out, unwrap(previous_frame_end),
                                         recreate_swapchain, gpu_pending, frame)
                    IN  /\ previous_frame_end' = m.previous_frame_end
                        /\ recreate_swapchain' = m.flag
                        /\ gpu_pending' = m.pending
                        /\ frames' = frames + 1
                        /\ pc' = "idle"
                        /\ target_image' = None
                        /\ panicked' = FALSE
                        /\ iter' = [iter EXCEPT !.executed = TRUE,
                                                !.presented = Some([swapchain |-> frame.swapchain,
                                                                    image_num |-> frame.image_num]),
                                                !.flush = out]
    /\ UNCHANGED <<window, driver, next_handle, surface, target, call>>
    /\ UNCHANGED <<control_flow, render_pass_format, resized_pending>>
    /\ UNCHANGED adapter_vars

Next ==
    \/ NativeResize
    \/ GpuComplete
    \/ CloseRequested
    \/ Resized
    \/ OtherEvent
    \/ LoopDestroyed
    \/ RedrawEventsCleared
    \/ Acquire
    \/ Submit

Spec == Init /\ [][Next]_vars

\* The same program under the scheduling the libraries give it. winit looks at control_flow
\* after every batch of events and stops the loop when it is Exit (strong fairness: the
\* handler of a redraw runs in between); the closure runs each handler to its end, and
\* acquire_next_image waits for an image the GPU, which finishes every frame, gives back.
FairSpec ==
    /\ Spec
    /\ SF_vars(LoopDestroyed)
    /\ WF_vars(Acquire)
    /\ WF_vars(Submit)
    /\ WF_vars(GpuComplete)

\* ============================================================ SpecAdapter
\* Instance::request_adapter on the devices the instance enumerates.

DeviceTypes == {"DiscreteGpu", "IntegratedGpu", "VirtualGpu", "Cpu", "Other"}

\* queue families a device may report; supports_surface is the Result of the query
QueueFamilyKinds ==
    {[supports_graphics |-> TRUE, supports_compute |-> FALSE, supports_surface |-> "Ok(true)"],
     [supports_graphics |-> TRUE, supports_compute |-> TRUE, supports_surface |-> "Ok(false)"],
     [supports_graphics |-> FALSE, supports_compute |-> TRUE, supports_surface |-> "Err"]}

SeqsUpTo(S, n) == UNION {[1..k -> S] : k \in 0..n}

PhysicalDevices ==
    [device_type : DeviceTypes,
     supported_extensions : {{}, {"khr_swapchain"}},
     queue_families : SeqsUpTo(QueueFamilyKinds, MaxQueueFamilies)]

\* AdapterDescriptor { ..AdapterDescriptor::graphics() } with the flags set either way
AdapterDescriptors ==
    [device_extensions : {{"khr_swapchain"}},
     supports_graphics : BOOLEAN,
     supports_compute : BOOLEAN,
     supports_surface : {None, Some("surface")}]

\* DeviceExtensions::is_superset_of
is_superset_of(a, b) == b \subseteq a

\* unwrap_or(true): a failed query counts as support
unwrap_or_true(result) == result # "Ok(false)"

\* queue_family.supports_surface(&surface).unwrap_or(false)
unwrap_or_false(result) == result = "Ok(true)"

\* AdapterDescriptor::compatible
compatible(d, queue_family) ==
    IF d.supports_graphics /\ ~queue_family.supports_graphics THEN FALSE
    ELSE IF d.supports_compute /\ ~queue_family.supports_compute THEN FALSE
    ELSE IF is_some(d.supports_surface)
            /\ ~unwrap_or_false(queue_family.supports_surface) THEN FALSE
    ELSE TRUE

\* p.queue_families().find(|&q| desc.compatible(&q)): the index of the first match
RECURSIVE find_from(_, _, _)
find_from(d, qs, j) ==
    IF j > Len(qs) THEN None
    ELSE IF compatible(d, qs[j]) THEN Some(j)
    ELSE find_from(d, qs, j + 1)

find_compatible(d, p) == find_from(d, p.queue_families, 1)

\* keys with the first two device types exchanged
device_type_key_swapped(device_type) ==
    CASE device_type = "DiscreteGpu" -> 1
      [] device_type = "IntegratedGpu" -> 0
      [] device_type = "VirtualGpu" -> 2
      [] device_type = "Cpu" -> 3
      [] device_type = "Other" -> 4

\* the key of min_by_key
device_type_key(device_type) ==
    CASE device_type = "DiscreteGpu" -> 0
      [] device_type = "IntegratedGpu" -> 1
      [] device_type = "VirtualGpu" -> 2
      [] device_type = "Cpu" -> 3
      [] device_type = "Other" -> 4

\* enumerate().filter(..).filter_map(..): the pairs <<device index, queue family index>>
\* in enumeration order
RECURSIVE candidates_from(_, _, _)
candidates_from(devs, d, i) ==
    IF i > Len(devs) THEN <<>>
    ELSE IF is_superset_of(devs[i].supported_extensions, d.device_extensions)
            /\ is_some(find_compatible(d, devs[i]))
         THEN <<<<i, unwrap(find_compatible(d, devs[i]))>>>> \o candidates_from(devs, d, i + 1)
         ELSE candidates_from(devs, d, i + 1)

\* Iterator::min_by_key: the first of the elements with the least key
RECURSIVE min_by_key_from(_, _, _, _)
min_by_key_from(devs, cands, best, k) ==
    IF k > Len(cands) THEN best
    ELSE IF device_type_key(devs[cands[k][1]].device_type)
              < device_type_key(devs[unwrap(best)[1]].device_type)
         THEN min_by_key_from(devs, cands, Some(cands[k]), k + 1)
         ELSE min_by_key_from(devs, cands, best, k + 1)

\* a minimum that keeps the last of the elements with the least key
RECURSIVE min_by_key_last_from(_, _, _, _)
min_by_key_last_from(devs, cands, best, k) ==
    IF k > Len(cands) THEN best
    ELSE IF device_type_key(devs[cands[k][1]].device_type)
              <= device_type_key(devs[unwrap(best)[1]].device_type)
         THEN min_by_key_last_from(devs, cands, Some(cands[k]), k + 1)
         ELSE min_by_key_last_from(devs, cands, best, k + 1)

min_by_key_last(devs, cands) ==
    IF cands = <<>> THEN None ELSE min_by_key_last_from(devs, cands, Some(cands[1]), 2)

min_by_key(devs, cands) ==
    IF cands = <<>> THEN None ELSE min_by_key_from(devs, cands, Some(cands[1]), 2)

\* a request_adapter that falls back to the first enumerated device
request_adapter_fallback(devs, d) ==
    LET chosen == min_by_key(devs, candidates_from(devs, d, 1))
    IN  IF is_some(chosen)
        THEN [adapter |-> Some([physical_device |-> unwrap(chosen)[1],
                                queue_family |-> unwrap(chosen)[2],
                                device_extensions |-> d.device_extensions]),
              panic |-> FALSE]
        ELSE IF devs # <<>>
        THEN [adapter |-> Some([physical_device |-> 1, queue_family |-> 1,
                                device_extensions |-> d.device_extensions]),
              panic |-> FALSE]
        ELSE [adapter |-> None, panic |-> TRUE]

\* Instance::request_adapter; the result is [adapter: Option<Adapter>, panic]
request_adapter(devs, d) ==
    LET chosen == min_by_key(devs, candidates_from(devs, d, 1))
    IN  IF is_some(chosen)
        THEN [adapter |-> Some([physical_device |-> unwrap(chosen)[1],
                                queue_family |-> unwrap(chosen)[2],
                                device_extensions |-> d.device_extensions]),
              panic |-> FALSE]
        ELSE [adapter |-> None, panic |-> TRUE]

InitAdapter ==
    /\ devices \in SeqsUpTo(PhysicalDevices, MaxDevices)
    /\ desc \in AdapterDescriptors
    /\ adapter = None
    /\ SurfaceUnused
    /\ LoopUnused

RequestAdapter ==
    /\ ~panicked
    /\ adapter = None
    /\ adapter' = request_adapter(devices, desc).adapter
    /\ panicked' = request_adapter(devices, desc).panic
    /\ UNCHANGED <<devices, desc>>
    /\ UNCHANGED <<window, driver, next_handle, surface, target, call>>
    /\ UNCHANGED loop_vars

NextAdapter == RequestAdapter

SpecAdapter == InitAdapter /\ [][NextAdapter]_vars

\* ================================================================ claims

\* ---- C1 (SpecSurface)
\* When the driver refuses the extent of a recreation ("image extent not supported"),
\* Surface::recreate_swapchain and TargetSurface::recreate return false, the process does
\* not panic, and the swapchain handle and the image handles are the ones from before
\* the call.
SoftFailLeavesSwapchain ==
    /\ (call.op = "recreate_swapchain" /\ call.outcome = "ImageExtentNotSupported")
          => (~call.ret /\ ~panicked /\ surface = call.pre_surface)
    /\ (call.op = "TargetSurface::recreate" /\ call.outcome = "ImageExtentNotSupported")
          => (~call.ret /\ ~panicked /\ target = call.pre_target)

\* a surface that holds a swapchain was asked to recreate it and the driver refused
SoftFailHappened ==
    /\ call.op = "recreate_swapchain"
    /\ call.outcome = "ImageExtentNotSupported"
    /\ is_some(call.pre_surface.swapchain)
    /\ call.pre_window # unwrap(call.pre_surface.swapchain).swapchain.create_info.image_extent
    /\ ~call.ret

\* ---- C2 (Spec)
\* When the recreation step of an iteration ran with the flag set and the recreation
\* failed softly, the flag is still set after the step (when the handler goes on to
\* acquire), so that the next iteration retries.
FlagKeptAfterSoftFail ==
    (pc = "acquire" /\ iter.recreate = "soft_fail") => recreate_swapchain

\* ---- C3 (Spec)
\* In an iteration whose acquisition reports "out of date" the loop sets the flag,
\* executes no command buffer and enqueues no present, keeps the retained future and
\* goes on with the next event: the process does not abort.
OutOfDateAcquireSkipsFrame ==
    iter.acquire = "OutOfDate"
       => /\ ~panicked
          /\ recreate_swapchain
          /\ ~iter.executed
          /\ iter.presented = None
          /\ is_some(previous_frame_end)

\* ---- C4 (Spec)
\* While the process runs, at every position of the loop up to the take() the
\* previous-frame slot holds a future (the unwraps on it cannot fail), and at the start
\* and at the end of every iteration it holds exactly one; a future stored after a
\* successful flush is the one frame's future the iteration made.
SingleRetainedFuture ==
    ~panicked =>
       /\ is_some(previous_frame_end)
       /\ Len(previous_frame_end) = 1
       /\ unwrap(previous_frame_end).kind \in {"now", "fence"}
       /\ unwrap(previous_frame_end).kind = "now" => unwrap(previous_frame_end).holds = {}

\* several iterations ran, with flush errors among them, and the loop is between events
IterationsWithFlushErrors ==
    /\ pc = "idle" /\ ~panicked
    /\ frames >= 2
    /\ iter.flush = "OtherError"
    /\ is_some(previous_frame_end)

\* ---- C5 (Spec)
\* The claim as stated: at most one submitted frame is unconfirmed by the GPU.
AtMostOneUnconfirmedFrame == Cardinality(gpu_pending) <= 1

\* As amended: the loop keeps one future and that future holds every submitted frame the
\* GPU has not finished; the loop does not wait for the GPU before it submits.
RetainedFutureHoldsUnconfirmedFrames ==
    (~panicked /\ pc \in {"idle", "acquire", "draw", "exited"})
       => {p.frame : p \in gpu_pending} \subseteq unwrap(previous_frame_end).holds

\* two frames are with the GPU at once
TwoFramesUnconfirmed ==
    /\ ~panicked
    /\ Cardinality(gpu_pending) >= 2
    /\ {p.frame : p \in gpu_pending} \subseteq unwrap(previous_frame_end).holds

\* ---- C6 (Spec)
\* The end of the handler, by flush result: Ok retains the frame's future; OutOfDate sets
\* the flag and retains a completed future; any other error retains a completed future
\* and leaves the flag as it was. Neither error stops the loop, and the iteration makes
\* one submit attempt only.
FlushOutcomeHandled ==
    [][(pc = "draw" /\ pc' = "idle") =>
          /\ ~panicked' /\ control_flow' = control_flow
          /\ frames' = frames + 1
          /\ iter'.flush \in {"Ok", "OutOfDate", "OtherError"}
          /\ iter'.flush = "Ok" =>
                /\ unwrap(previous_frame_end').kind = "fence"
                /\ frames' \in unwrap(previous_frame_end').holds
                /\ unwrap(previous_frame_end).holds \subseteq unwrap(previous_frame_end').holds
                /\ recreate_swapchain' = recreate_swapchain
          /\ iter'.flush = "OutOfDate" =>
                /\ recreate_swapchain'
                /\ previous_frame_end' = Some(now_future)
                /\ \A p \in gpu_pending' : p.frame # frames'
          /\ iter'.flush = "OtherError" =>
                /\ recreate_swapchain' = recreate_swapchain
                /\ previous_frame_end' = Some(now_future)
                /\ \A p \in gpu_pending' : p.frame # frames'
      ]_vars

\* an iteration ended on a flush error other than OutOfDate with the flag clear
OtherFlushErrorHandled ==
    /\ pc = "idle" /\ ~panicked
    /\ iter.flush = "OtherError"
    /\ ~recreate_swapchain
    /\ previous_frame_end = Some(now_future)

\* ---- C7 (Spec)
\* When the acquired image is suboptimal the handler sets the flag and goes on: it
\* executes the command buffer and enqueues the present of that image. The flag then
\* stays set over the events that follow, and the next RedrawEventsCleared iteration
\* calls recreate_swapchain before it acquires.
SuboptimalDrawsAndFlags ==
    [][/\ (pc = "acquire" /\ pc' = "draw" /\ iter'.suboptimal) => recreate_swapchain'
       /\ (pc = "draw" /\ pc' = "idle" /\ iter.suboptimal) =>
             /\ recreate_swapchain'
             /\ iter'.executed
             /\ iter'.presented = Some([swapchain |-> unwrap(target_image).from_swapchain,
                                        image_num |-> unwrap(target_image).image_num])
       /\ (pc = "idle" /\ recreate_swapchain /\ ~panicked) =>
             \/ pc' \in {"idle", "exited"} /\ ~panicked' /\ recreate_swapchain'
                   /\ surface' = surface
             \/ iter'.flag_at_start /\ iter'.recreate \in {"Ok", "soft_fail", "panic"}
                   /\ call'.op = "recreate_swapchain"
      ]_vars

\* a suboptimal image was drawn to and presented, and the flag is set for the next iteration
SuboptimalFrameSubmitted ==
    /\ pc = "idle" /\ ~panicked
    /\ iter.suboptimal /\ iter.executed /\ iter.flush = "Ok"
    /\ ~iter.flag_at_start
    /\ recreate_swapchain

\* ---- C8 (SpecAdapter)
\* The adapter request_adapter returns is of the most preferred device type among the
\* qualifying devices, DiscreteGpu before IntegratedGpu before VirtualGpu before Cpu
\* before Other: no qualifying device has a strictly more preferred type.
PreferenceOrder == <<"DiscreteGpu", "IntegratedGpu", "VirtualGpu", "Cpu", "Other">>
Rank(device_type) == CHOOSE i \in 1..Len(PreferenceOrder) : PreferenceOrder[i] = device_type

Satisfies(d, q) ==
    /\ d.supports_graphics => q.supports_graphics
    /\ d.supports_compute => q.supports_compute
    /\ is_some(d.supports_surface) => q.supports_surface = "Ok(true)"

Qualifies(d, p) ==
    /\ d.device_extensions \subseteq p.supported_extensions
    /\ \E j \in 1..Len(p.queue_families) : Satisfies(d, p.queue_families[j])

AdapterMostPreferred ==
    is_some(adapter) =>
       \A i \in 1..Len(devices) :
          Qualifies(desc, devices[i]) =>
             Rank(devices[unwrap(adapter).physical_device].device_type)
                <= Rank(devices[i].device_type)

\* two qualifying devices of different types, the more preferred one enumerated last
LaterDevicePreferred ==
    /\ is_some(adapter)
    /\ Len(devices) = 2
    /\ Qualifies(desc, devices[1]) /\ Qualifies(desc, devices[2])
    /\ Rank(devices[2].device_type) < Rank(devices[1].device_type)
    /\ unwrap(adapter).physical_device = 2

\* ---- C9 (SpecAdapter)
\* The device of the returned adapter supports every extension the descriptor requires,
\* and the returned queue family is one of that device's families and has every
\* capability the descriptor asks for (a failed surface query counts as no support).
AdapterQualifies ==
    is_some(adapter) =>
       LET p == devices[unwrap(adapter).physical_device]
       IN  /\ desc.device_extensions \subseteq p.supported_extensions
           /\ unwrap(adapter).queue_family \in 1..Len(p.queue_families)
           /\ Satisfies(desc, p.queue_families[unwrap(adapter).queue_family])

\* a device of a more preferred type that does not qualify was passed over
UnqualifiedPreferredDeviceSkipped ==
    /\ is_some(adapter)
    /\ is_some(desc.supports_surface)
    /\ \E i \in 1..Len(devices) :
          /\ ~Qualifies(desc, devices[i])
          /\ Rank(devices[i].device_type)
               < Rank(devices[unwrap(adapter).physical_device].device_type)

\* ---- C10 (Spec)
\* A successful recreate_swapchain in the loop creates the new swapchain from the old
\* one's create info with image_extent replaced by the window's inner size of that
\* moment and nothing else changed, so the image set has the same length and format;
\* and at all times the swapchain's format is the one the render pass was built with.
RecreateKeepsCreateInfo ==
    /\ Surface_image_format(surface) = render_pass_format
    /\ (call.op = "recreate_swapchain" /\ call.ret) =>
          LET old == unwrap(call.pre_surface.swapchain)
              new == unwrap(surface.swapchain)
          IN  /\ new.swapchain.create_info =
                    [old.swapchain.create_info EXCEPT !.image_extent = call.pre_window]
              /\ Len(new.images) = Len(old.images)
              /\ new.swapchain.handle # old.swapchain.handle

\* a second recreation succeeded, to another extent than the swapchain had
RecreatedTwice ==
    /\ call.op = "recreate_swapchain" /\ call.ret
    /\ unwrap(surface.swapchain).swapchain.handle >= 3
    /\ call.pre_window # unwrap(call.pre_surface.swapchain).swapchain.create_info.image_extent

\* ---- C11 (Spec)
\* When the driver answers the recreation of an iteration with an error other than
\* "image extent not supported", recreate_swapchain panics instead of returning false:
\* the process has aborted inside the recreate step, the swapchain is the one from before
\* the call, and the iteration has acquired no image, executed no command buffer and
\* presented nothing.
OtherRecreateErrorIsFatal ==
    (call.op = "recreate_swapchain" /\ call.outcome = "OtherError")
        => /\ panicked
           /\ ~call.ret
           /\ surface = call.pre_surface
           /\ pc = "idle"
           /\ iter.recreate = "panic"
           /\ iter.acquire = "none"
           /\ target_image = None
           /\ ~iter.executed
           /\ iter.presented = None

\* after at least one submitted frame a recreation met such an error
RecreateFailedHard ==
    /\ call.op = "recreate_swapchain"
    /\ call.outcome = "OtherError"
    /\ is_some(call.pre_surface.swapchain)
    /\ frames >= 1

\* ---- C12 (Spec)
\* Recreation is attempted only on a signal. The flag rises only in the Resized handler,
\* after an acquire that reported suboptimal, or after a flush that reported out of date;
\* an iteration attempts a recreation only with the flag set, and an attempt that returns
\* clears the flag, so that the next attempt needs a new signal; an iteration that starts
\* with the flag clear attempts nothing, and the swapchain is replaced in no other step.
IterationStarted == pc = "idle" /\ pc' = "acquire"

RecreationOnlyOnSignal ==
    [][ /\ (~recreate_swapchain /\ recreate_swapchain')
            => \/ resized_pending /\ ~resized_pending'
               \/ pc = "acquire" /\ pc' = "draw" /\ iter'.suboptimal
               \/ pc = "draw" /\ pc' = "idle" /\ iter'.flush = "OutOfDate"
        /\ (surface' # surface \/ next_handle' # next_handle)
            => (pc = "idle" /\ recreate_swapchain /\ iter'.recreate = "Ok")
        /\ (IterationStarted /\ iter'.recreate \in {"Ok", "soft_fail"})
            => (recreate_swapchain /\ ~recreate_swapchain')
        /\ (pc = "idle" /\ panicked' /\ iter'.recreate = "panic") => recreate_swapchain
        /\ (IterationStarted /\ ~recreate_swapchain)
            => /\ iter'.recreate = "skipped"
               /\ surface' = surface
               /\ call' = NoCall
               /\ ~recreate_swapchain'
      ]_vars

\* after an earlier recreation an iteration started with the flag clear and an image was
\* acquired from the swapchain that recreation left
IterationWithoutRecreation ==
    /\ pc = "draw"
    /\ iter.recreate = "skipped"
    /\ unwrap(surface.swapchain).swapchain.handle >= 2

\* ---- C13 (FairSpec)
\* As the claim states it: CloseRequested sets the control flow to Exit and does nothing
\* else, and once the control flow is Exit no step acquires an image, submits or presents
\* a frame.
NoFrameAfterCloseRequested ==
    [][ /\ control_flow' # control_flow
            => /\ control_flow' = "Exit"
               /\ pc = "idle" /\ pc' = "idle"
               /\ UNCHANGED <<target_image, gpu_pending, frames, iter, surface>>
        /\ control_flow = "Exit"
            => /\ pc' \in {"idle", "exited"}
               /\ UNCHANGED <<target_image, gpu_pending, frames>>
               /\ iter'.executed = iter.executed /\ iter'.presented = iter.presented
      ]_vars

\* C13, amended: CloseRequested sets the control flow to Exit whatever the flag and the
\* retained future are, and the handler changes nothing else: it acquires no image and
\* submits no frame. The control flow never leaves Exit. Events winit still delivers
\* between the request and the stop of the loop are handled as always, a
\* RedrawEventsCleared among them acquires and submits a frame. Once the loop has stopped
\* nothing is acquired, submitted or presented, and after a request the loop eventually
\* stops (or the process has aborted).
CloseRequestedStopsLoop ==
    /\ [][ /\ control_flow' # control_flow
               => /\ control_flow' = "Exit"
                  /\ pc = "idle" /\ pc' = "idle"
                  /\ UNCHANGED <<recreate_swapchain, previous_frame_end, target_image,
                                 gpu_pending, frames, iter, surface, call, panicked>>
           /\ control_flow = "Exit" => control_flow' = "Exit"
           /\ pc = "exited" => UNCHANGED vars
         ]_vars
    /\ (control_flow = "Exit") ~> (pc = "exited" \/ panicked)

\* the close was requested with the flag set and a fence future retained, and the
\* handler of a later RedrawEventsCleared has acquired an image
FrameAfterCloseRequested ==
    /\ control_flow = "Exit"
    /\ pc = "draw"
    /\ recreate_swapchain
    /\ is_some(previous_frame_end)
    /\ unwrap(previous_frame_end).kind = "fence"

\* ---- C14 (Spec)
\* The present matches the acquire. While the handler holds an acquired image, the image
\* was acquired from the stored swapchain, its index lies within the stored image list and
\* its image handle is the stored swapchain's image at that index; the swapchain is not
\* replaced between the start of the acquire and the end of the submit; and the present a
\* submitting step enqueues names the swapchain the index was acquired from and that index.
StoredSwapchain == unwrap(surface.swapchain)

PresentMatchesAcquire ==
    [][ /\ pc' = "draw"
            => LET img == unwrap(target_image')
                   sc == unwrap(surface'.swapchain)
               IN  /\ img.from_swapchain = sc.swapchain.handle
                   /\ img.image_num + 1 \in 1..Len(sc.images)
                   /\ img.image = sc.images[img.image_num + 1]
                   /\ img.image = [swapchain |-> img.from_swapchain, index |-> img.image_num]
        /\ pc \in {"acquire", "draw"} => surface' = surface
        /\ (pc = "draw" /\ pc' = "idle")
            => /\ iter'.executed
               /\ iter'.presented = Some([swapchain |-> unwrap(target_image).from_swapchain,
                                          image_num |-> unwrap(target_image).image_num])
               /\ unwrap(iter'.presented).swapchain = StoredSwapchain.swapchain.handle
        /\ iter'.presented # iter.presented => (pc = "idle" \/ pc = "draw")
      ]_vars

\* a frame was presented for the second image of a swapchain that a recreation made
PresentedSecondImageOfRecreated ==
    /\ pc = "idle"
    /\ is_some(iter.presented)
    /\ unwrap(iter.presented).image_num = 1
    /\ unwrap(iter.presented).swapchain >= 2
    /\ iter.flush = "Ok"

\* ---- C15 (SpecAdapter)
\* request_adapter panics exactly when no enumerated device both supports the required
\* extensions and has a queue family with the required capabilities, the empty device
\* list included: the call then returns no adapter, neither a fallback device nor the
\* result of a second try; with a qualifying device it returns an adapter and does not
\* panic.
NoQualifyingDevicePanics ==
    [][ IF \E i \in 1..Len(devices) : Qualifies(desc, devices[i])
        THEN is_some(adapter') /\ ~panicked'
        ELSE adapter' = None /\ panicked'
      ]_vars

\* the call panicked although two devices were enumerated, one of which supports the
\* required extensions
PanickedWithDevicesPresent ==
    /\ panicked
    /\ adapter = None
    /\ Len(devices) = 2
    /\ \E i \in 1..Len(devices) : desc.device_extensions \subseteq devices[i].supported_extensions

\* ---- C16 (Spec)
\* Convergence after a resize, in the form a finite run refutes: a soft-failed recreation
\* leaves a retry pending, so whenever the loop waits for events with no Resized event
\* queued and the flag clear (nothing then asks for another recreation), the swapchain's
\* image extent is the window's current inner size.
QuietLoopHasWindowExtent ==
    (Running /\ pc = "idle" /\ ~resized_pending /\ ~recreate_swapchain)
        => unwrap(surface.swapchain).swapchain.create_info.image_extent = window

\* ---- C17 (Spec)
\* Every Resized event leads to a recreation attempt before the next acquire. The Resized
\* handler sets the flag; the flag stays set over every step until the handler of the
\* next RedrawEventsCleared; an iteration that starts with the flag set calls
\* recreate_swapchain once, on the stored swapchain and with the window's inner size of
\* that moment, before it acquires (a success makes one new swapchain of that extent, a
\* soft failure none), and has cleared the flag when it goes on to acquire, so Resized
\* events that arrived before it cause that one attempt only.
ResizedLeadsToAttempt ==
    [][ /\ (resized_pending /\ ~resized_pending') => recreate_swapchain'
        /\ (recreate_swapchain /\ ~recreate_swapchain') => IterationStarted
        /\ (IterationStarted /\ recreate_swapchain)
            => /\ call'.op = "recreate_swapchain"
               /\ call'.pre_window = window
               /\ call'.pre_surface = surface
               /\ iter'.recreate \in {"Ok", "soft_fail"}
               /\ iter'.recreate = "Ok"
                    => /\ unwrap(surface'.swapchain).swapchain.create_info.image_extent = window
                       /\ next_handle' = next_handle + 1
               /\ iter'.recreate = "soft_fail" => next_handle' = next_handle
               /\ iter'.acquire = "none"
               /\ ~recreate_swapchain'
        /\ (pc' = "draw" /\ iter'.flag_at_start) => iter'.recreate \in {"Ok", "soft_fail"}
      ]_vars

\* after a submitted frame the window changed its size, a Resized event set the flag and
\* the iteration recreated the swapchain with the new size before acquiring
ResizeRecreatedBeforeAcquire ==
    /\ pc = "draw"
    /\ frames >= 1
    /\ iter.flag_at_start
    /\ iter.recreate = "Ok"
    /\ call.pre_window # unwrap(call.pre_surface.swapchain).swapchain.create_info.image_extent
    /\ unwrap(surface.swapchain).swapchain.create_info.image_extent = call.pre_window

\* ---- C18 (SpecSurface)
\* The swapchain handle and the image list change together. After any sequence of
\* create_swapchain and recreate_swapchain calls the stored image list is the image set
\* the driver returned with the stored swapchain handle; a call that returns true has
\* replaced the handle and every image, a soft failure has replaced neither; and the
\* image get_current_image returns is the element of the stored list at the index the
\* driver answered, which lies within the list.
ImagesOf(sc) ==
    /\ Len(sc.images) = sc.swapchain.create_info.min_image_count
    /\ \A i \in 1..Len(sc.images) :
          sc.images[i] = [swapchain |-> sc.swapchain.handle, index |-> i - 1]

HandleAndImagesTogether ==
    /\ is_some(surface.swapchain) => ImagesOf(unwrap(surface.swapchain))
    /\ (call.op \in {"create_swapchain", "recreate_swapchain"} /\ call.ret)
          => /\ is_some(surface.swapchain)
             /\ is_some(call.pre_surface.swapchain)
                  => LET old == unwrap(call.pre_surface.swapchain)
                         new == unwrap(surface.swapchain)
                     IN  /\ new.swapchain.handle # old.swapchain.handle
                         /\ \A i \in 1..Len(new.images), j \in 1..Len(old.images) :
                               new.images[i] # old.images[j]
    /\ (call.op = "recreate_swapchain" /\ ~call.ret) => surface = call.pre_surface
    /\ (call.op = "get_current_image" /\ call.ret)
          => LET sc == unwrap(surface.swapchain)
                 img == unwrap(call.image)
             IN  /\ img.image_num + 1 \in 1..Len(sc.images)
                 /\ img.image = sc.images[img.image_num + 1]
                 /\ img.image.swapchain = sc.swapchain.handle

\* the second image was acquired from a swapchain that a recreation stored
AcquiredFromRecreated ==
    /\ call.op = "get_current_image"
    /\ call.ret
    /\ unwrap(call.image).image_num = 1
    /\ unwrap(surface.swapchain).swapchain.handle >= 2
    /\ unwrap(surface.swapchain).swapchain.create_info.image_extent = <<2, 1>>

\* ---- C19 (SpecSurface)
\* A Surface starts with no swapchain. recreate_swapchain on a surface that holds none
\* returns false whatever the driver would have answered: the driver is not asked (no
\* handle is used up), the process does not panic and the surface holds none afterwards.
\* Only a create_swapchain that returns true takes the surface from none to holding one.
RecreateNeverCreates ==
    /\ surface.swapchain = None
    /\ [][ /\ (surface.swapchain = None /\ call'.op = "recreate_swapchain" /\ call' # call)
               => /\ ~call'.ret
                  /\ ~panicked'
                  /\ surface'.swapchain = None
                  /\ next_handle' = next_handle
           /\ (surface.swapchain = None /\ surface'.swapchain # None)
               => /\ call'.op = "create_swapchain"
                  /\ call'.ret
                  /\ call'.pre_surface = surface
         ]_vars

\* recreate_swapchain was called on a surface without a swapchain while the driver would
\* have answered with a hard error
RecreatedWithoutSwapchain ==
    /\ call.op = "recreate_swapchain"
    /\ call.pre_surface.swapchain = None
    /\ call.outcome = "OtherError"
    /\ surface.swapchain = None
    /\ ~panicked

\* ---- C20 (SpecAdapter)
\* Ties go to the first. No qualifying device enumerated before the returned one has the
\* returned device's type, and no queue family of the returned device that comes before
\* the returned family has the capabilities the descriptor asks for.
FirstAmongEquals ==
    is_some(adapter) =>
       LET a == unwrap(adapter)
           p == devices[a.physical_device]
       IN  /\ \A i \in 1..(a.physical_device - 1) :
                 Qualifies(desc, devices[i]) => devices[i].device_type # p.device_type
           /\ \A j \in 1..(a.queue_family - 1) : ~Satisfies(desc, p.queue_families[j])

\* two qualifying devices of one type, the first with two families that both qualify:
\* the first device and its first family were returned
TieBrokenByOrder ==
    /\ is_some(adapter)
    /\ Len(devices) = 2
    /\ devices[1].device_type = devices[2].device_type
    /\ Qualifies(desc, devices[1]) /\ Qualifies(desc, devices[2])
    /\ Len(devices[1].queue_families) = 2
    /\ Satisfies(desc, devices[1].queue_families[1])
    /\ Satisfies(desc, devices[1].queue_families[2])
    /\ devices[1].queue_families[1] # devices[1].queue_families[2]
    /\ unwrap(adapter).physical_device = 1
    /\ unwrap(adapter).queue_family = 1

====
